---- MODULE Spec2Model ----
(***************************************************************************)
(* State-machine model of the SCORM XBlock (scormxblock/scormxblock.py).   *)
(*                                                                         *)
(* One action per request handler.  A handler works on the field values    *)
(* of the block instance built for the request (the record `self`); the    *)
(* values reach the persistent fields when the handler ends normally       *)
(* (self.save() / the runtime's save after the handler), and are dropped   *)
(* when the handler raises.                                                *)
(*                                                                         *)
(* Python values are modelled as follows.                                  *)
(*   - a JSON text is a record [wf, fmt, val]: whether it parses, how it   *)
(*     is laid out ("client" as sent by a player, "dumps" as json.dumps    *)
(*     writes it) and the value it denotes;                                *)
(*   - a dict is a record with a field `has` (the keys present) next to    *)
(*     one field per key the code reads;                                   *)
(*   - a scalar JSON value is a tagged record (Str, Num, None, Map);       *)
(*   - a float is a reduced fraction <<numerator, denominator>>.           *)
(***************************************************************************)
EXTENDS Integers, Sequences, FiniteSets, TLC

\* ------------------------------------------------------------------ bounds
\* number of SCO identifiers a status document may mention
MaxScos == 2
\* largest block weight an author submits
MaxWeight == 2
\* number of uploads an author makes in one run
MaxImports == 2

\* ------------------------------------------------------- program constants
DEFAULT_SCO_MAX_SCORE == 100

\* --------------------------------------------------------- Python values
Str(s) == [t |-> "str", s |-> s, n |-> 0]
Num(n) == [t |-> "num", s |-> "", n |-> n]
None == [t |-> "none", s |-> "", n |-> 0]
Map(m) == [t |-> "map", m |-> m]

\* the numeric literals among the strings of the model, with their values
NumericLiteral == ("0" :> 0) @@ ("50" :> 50) @@ ("60" :> 60) @@ ("80" :> 80) @@ ("100" :> 100)

\* float(v) / int(v): the exception raised ("" when none) and the value
PyNumberExc(v) ==
  CASE v.t = "num" -> ""
    [] v.t = "str" -> IF v.s \in DOMAIN NumericLiteral THEN "" ELSE "ValueError"
    [] OTHER -> "TypeError"
PyNumber(v) == IF v.t = "num" THEN v.n ELSE NumericLiteral[v.s]

\* str(v) == '' (only the empty string prints as the empty string)
StrIsEmpty(v) == v.t = "str" /\ v.s = ""

RECURSIVE GCD(_, _)
GCD(a, b) == IF b = 0 THEN a ELSE GCD(b, a % b)
\* the float n / d, d > 0, n >= 0
Rat(n, d) == LET g == GCD(n, d) IN <<n \div g, d \div g>>

\* ------------------------------------------------------------ JSON texts
EmptyObject == [kind |-> "object", has |-> {}, status |-> "", score |-> None, scos |-> <<>>]
JsonArray == [kind |-> "array", has |-> {}, status |-> "", score |-> None, scos |-> <<>>]
Text(wf, fmt, val) == [wf |-> wf, fmt |-> fmt, val |-> val]
\* the default of raw_scorm_status: '{}'
DefaultRawStatus == Text(TRUE, "dumps", EmptyObject)

\* a json.loads that accepts any text
json_loads_lenient(text) == [exc |-> "", val |-> text.val]
json_loads(text) == [exc |-> IF text.wf THEN "" ELSE "ValueError", val |-> text.val]
json_dumps(val) == Text(TRUE, "dumps", val)

\* dict.get(key, default) for the top-level keys of a status document
DictGet(d, key, default) ==
  IF key \notin d.has THEN default
  ELSE CASE key = "status" -> d.status
         [] key = "score" -> d.score
         [] key = "scos" -> d.scos

\* ------------------------------------------------------- SCO bookkeeping
_get_all_scos(self) ==
  LET status == json_loads(self.raw_scorm_status).val
  IN  [present |-> "scos" \in status.has, scos |-> status.scos]

_status_serialize_key(self, key, val) ==
  LET status == json_loads(self.raw_scorm_status).val
      updated == [status EXCEPT !.has = @ \cup {key}, !.scos = val]
  IN  [self EXCEPT !.raw_scorm_status = json_dumps(updated)]

\* scos[sco][key] = val for one SCO record
ScoSet(sco, key, val) ==
  CASE key = "cmi.core.credit" -> [sco EXCEPT !.has = @ \cup {key}, !.credit = val]
    [] key = "cmi.core.lesson_status" -> [sco EXCEPT !.has = @ \cup {key}, !.lesson_status = val]

_scos_set_values(self, key, val, overwrite) ==
  LET got == _get_all_scos(self)
  IN  IF got.present /\ DOMAIN got.scos # {}
      THEN LET scos == [id \in DOMAIN got.scos |->
                          IF ("key" \notin got.scos[id].has) \/ ("key" \in got.scos[id].has /\ overwrite)
                          THEN ScoSet(got.scos[id], key, val)
                          ELSE got.scos[id]]
           IN  _status_serialize_key(self, "scos", scos)
      ELSE self

_init_scos(self) ==
  LET credit == IF self.weight > 0 THEN "credit" ELSE "no-credit"
      s1 == _scos_set_values(self, "cmi.core.credit", credit, FALSE)
      s2 == _scos_set_values(s1, "cmi.core.lesson_status", "not attempted", TRUE)
  IN  [s2 EXCEPT !.scorm_initialized = TRUE]

\* ------------------------------------------------------- grade publisher
GradeEvent(value, max_value) == [value |-> value, max_value |-> max_value]

\* a publisher that forgets the block weight
_publish_grade_unweighted(self, status, score) ==
  IF score # Str("")
  THEN IF PyNumberExc(score) # ""
       THEN [exc |-> PyNumberExc(score), events |-> <<>>]
       ELSE [exc |-> "",
             events |-> <<GradeEvent(Rat(PyNumber(score), DEFAULT_SCO_MAX_SCORE), self.weight)>>]
  ELSE [exc |-> "", events |-> <<>>]
_publish_grade(self, status, score) ==
  IF score # Str("")
  THEN IF PyNumberExc(score) # ""
       THEN [exc |-> PyNumberExc(score), events |-> <<>>]
       ELSE [exc |-> "",
             events |-> <<GradeEvent(Rat(PyNumber(score) * self.weight, DEFAULT_SCO_MAX_SCORE),
                                     self.weight)>>]
  ELSE [exc |-> "", events |-> <<>>]

\* ----------------------------------------------------- rollup calculator
_get_value_from_sco(sco, key, default) ==
  IF key \notin sco.has
  THEN [exc |-> "UnboundLocalError", val |-> default]
  ELSE IF StrIsEmpty(sco.score_raw)
       THEN [exc |-> "", val |-> default]
       ELSE [exc |-> "", val |-> sco.score_raw]

\* int(self._get_value_from_sco(scos[id]['data'], 'cmi.core.score.raw', 0))
ScoScore(scos, id) ==
  LET got == _get_value_from_sco(scos[id].data, "cmi.core.score.raw", Num(0))
  IN  IF got.exc # "" THEN [exc |-> got.exc, n |-> 0]
      ELSE IF PyNumberExc(got.val) # "" THEN [exc |-> PyNumberExc(got.val), n |-> 0]
      ELSE [exc |-> "", n |-> PyNumber(got.val)]

RECURSIVE TotalScore(_, _)
TotalScore(scos, ids) ==
  IF ids = {} THEN 0
  ELSE LET id == CHOOSE i \in ids : TRUE
       IN  ScoScore(scos, id).n + TotalScore(scos, ids \ {id})

_set_lesson_score(self, scos) ==
  IF scos.t # "map"
  THEN [exc |-> "AttributeError", self |-> self]
  ELSE LET keys == DOMAIN scos.m
           failing == {id \in keys : ScoScore(scos.m, id).exc # ""}
       IN  IF failing # {}
           THEN [exc |-> ScoScore(scos.m, CHOOSE id \in failing : TRUE).exc, self |-> self]
           ELSE IF keys = {}
           THEN [exc |-> "ZeroDivisionError", self |-> self]
           ELSE [exc |-> "",
                 self |-> [self EXCEPT !.lesson_score = Rat(TotalScore(scos.m, keys), Cardinality(keys))]]

\* ----------------------------------------------------------- status store
get_raw_scorm_status(self) ==
  [exc |-> "", self |-> self, events |-> <<>>, init_ran |-> FALSE,
   body |-> self.raw_scorm_status]

\* a guard that lets every call initialise
InitGuard_always(self) == TRUE
\* `if not self.scorm_initialized:`
InitGuard(self) == ~self.scorm_initialized

\* a store that writes the parsed document back out
StoredStatus_redumped(data, scorm_data) == json_dumps(scorm_data)
\* `self.raw_scorm_status = data`: the posted text itself is stored
StoredStatus(data, scorm_data) == data

set_raw_scorm_status(self, data) ==
  LET loaded == json_loads(data)
      scorm_data == loaded.val
      new_status == DictGet(scorm_data, "status", "not attempted")
      run_init == InitGuard(self)
      s1 == IF run_init THEN _init_scos(self) ELSE self
      s2 == [s1 EXCEPT !.raw_scorm_status = StoredStatus(data, scorm_data),
                       !.lesson_status = new_status]
      score == DictGet(scorm_data, "score", None)
      published == _publish_grade(s2, new_status, score)
  IN  IF loaded.exc # ""
      THEN [exc |-> loaded.exc, self |-> self, events |-> <<>>, init_ran |-> FALSE, body |-> data]
      ELSE IF scorm_data.kind # "object"
      THEN [exc |-> "AttributeError", self |-> self, events |-> <<>>, init_ran |-> FALSE, body |-> data]
      ELSE IF published.exc # ""
      THEN [exc |-> published.exc, self |-> s2, events |-> <<>>, init_ran |-> run_init, body |-> data]
      ELSE [exc |-> "", self |-> s2, events |-> published.events, init_ran |-> run_init,
            body |-> json_dumps(s2.raw_scorm_status)]

\* -------------------------------------------------- in-process SCORM API
scorm_get_value(self, data) ==
  [exc |-> "", self |-> self, events |-> <<>>, init_ran |-> FALSE,
   body |-> IF data.name = "cmi.core.lesson_status" THEN self.lesson_status ELSE ""]

\* the value a non-"completed" lesson_status report leaves in the field
PlainOf(v) == IF v.t = "str" THEN v.s ELSE "None"

scorm_set_value(self, data) ==
  LET name == data.name
      value == IF data.has_value THEN data.value ELSE None
      set_status == name = "cmi.core.lesson_status" /\ value # Str("completed")
      s1 == IF set_status THEN [self EXCEPT !.lesson_status = PlainOf(value)] ELSE self
      rolled == _set_lesson_score(s1, IF data.has_value THEN data.value ELSE Num(0))
  IN  IF set_status
      \* self._publish_grade() is called without its two arguments
      THEN [exc |-> "TypeError", self |-> s1, events |-> <<>>, init_ran |-> FALSE, body |-> "failure"]
      ELSE IF name = "cmi.core.score.raw"
      THEN IF rolled.exc # ""
           THEN [exc |-> rolled.exc, self |-> rolled.self, events |-> <<>>, init_ran |-> FALSE, body |-> "failure"]
           ELSE [exc |-> "", self |-> rolled.self, events |-> <<>>, init_ran |-> FALSE, body |-> "success"]
      ELSE [exc |-> "", self |-> s1, events |-> <<>>, init_ran |-> FALSE, body |-> "success"]

\* ------------------------------------------------------ package importer
\* The storage back-ends told apart by what the code asks of them:
\*   "local"  a directory under storage.location (shutil.rmtree applies),
\*   "s3"     a bucket (storage.bucket.list applies, no local directory),
\*   "other"  neither a local directory nor a bucket.
Backends == {"local", "s3", "other"}

\* a stored file: its name under path_to_file and the archive it came from;
\* `alt` marks the alternative name storage.save picks when the name is taken
StoredFile(name, pkg, alt) == [name |-> name, pkg |-> pkg, alt |-> alt]

\* storage.exists(os.path.join(path_to_file, 'imsmanifest.xml'))
ManifestExists(files) == \E f \in files : f.name = "imsmanifest.xml" /\ ~f.alt

\* The old content is deleted when a manifest is found.  `kept` is what
\* shutil.rmtree leaves behind on a local directory: nothing when it
\* succeeds, the files it had not yet removed when it raises OSError.
DeleteOld(files, backend, kept) ==
  IF ~ManifestExists(files)
  THEN [outcome |-> "skipped", files |-> files]
  ELSE CASE backend = "local" ->
              IF kept = {} THEN [outcome |-> "deleted", files |-> {}]
              \* OSError, and FileSystemStorage has no `bucket`
              ELSE [outcome |-> "unsupported", files |-> kept]
         \* OSError (no local directory), then every key under the prefix is deleted
         [] backend = "s3" -> [outcome |-> "deleted", files |-> {}]
         \* OSError (no local directory), then AttributeError on storage.bucket
         [] OTHER -> [outcome |-> "unsupported", files |-> files]

\* f.decode(self.encoding): cp850 maps every byte, ascii only the first 128
Decodable(member, enc) == enc = "cp850" \/ ~member.nonascii

\* storage.save(name, fh): a bucket overwrites a taken name, the other
\* back-ends store the file under an alternative name
Saved(files, member, pkg, backend) ==
  IF \E f \in files : f.name = member.name /\ ~f.alt
  THEN IF backend = "s3"
       THEN {f \in files : ~(f.name = member.name /\ ~f.alt)} \cup {StoredFile(member.name, pkg, FALSE)}
       ELSE files \cup {StoredFile(member.name, pkg, TRUE)}
  ELSE files \cup {StoredFile(member.name, pkg, FALSE)}

\* the loop over to_store, in the order os.walk lists the extracted files
RECURSIVE StoreAll(_, _, _, _, _)
StoreAll(files, order, pkg, enc, backend) ==
  IF order = <<>> THEN [exc |-> "", files |-> files]
  ELSE LET member == Head(order)
       IN  IF ~Decodable(member, enc)
           THEN [exc |-> "UnicodeDecodeError", files |-> files]
           ELSE CASE member.save = "ok" ->
                       StoreAll(Saved(files, member, pkg, backend), Tail(order), pkg, enc, backend)
                  \* caught and logged, the file is skipped
                  [] member.save = "DjangoUnicodeDecodeError" ->
                       StoreAll(files, Tail(order), pkg, enc, backend)
                  [] OTHER -> [exc |-> member.save, files |-> files]

\* storage.url(path_to_file), and the value kept in scorm_file
Url(base, query) == [base |-> base, query |-> query]
StorageUrl(backend) ==
  IF backend = "s3" THEN Url("https://bucket/scorms/block", "?Signature=abc")
  ELSE Url("/media/scorms/block", "")
StripQuery(url) == IF url.query # "" /\ url.base # "" THEN Url(url.base, "") ELSE url

\* the eight assignments that open studio_submit
ApplyParams(self, params) ==
  [self EXCEPT !.display_name = params.display_name,
               !.description = params.description,
               !.weight = params.weight,
               !.display_width = params.display_width,
               !.display_height = params.display_height,
               !.display_type = params.display_type,
               !.scorm_player = params.scorm_player,
               !.encoding = params.encoding]

\* a handler outcome of studio_submit
StudioResult(exc, body, self, files, tempdirs, deleted, tempdir) ==
  [exc |-> exc, body |-> body, self |-> self, files |-> files, tempdirs |-> tempdirs,
   deleted |-> deleted, tempdir |-> tempdir]

\* fs is the storage and the disk as the request finds them; env is what the
\* environment decides during the request (what rmtree leaves, the order of
\* os.walk)
studio_submit(self, params, fs, env) ==
  LET s1 == ApplyParams(self, params)
      config == params.player_configuration
      config_given == config.fmt # "empty"
      config_valid == json_loads(config).exc = ""
      s2 == IF config_given /\ config_valid THEN [s1 EXCEPT !.player_configuration = config] ELSE s1
      upload == params.file
      old == DeleteOld(fs.files, fs.backend, env.kept)
      stored == StoreAll(old.files, env.order, upload.pkg, s2.encoding, fs.backend)
      s3 == [s2 EXCEPT !.scorm_file = StripQuery(StorageUrl(fs.backend))]
  IN  IF config_given /\ ~config_valid
      THEN StudioResult("", "failure: Invalid JSON in Player Configuration",
                        s1, fs.files, fs.tempdirs, "skipped", "none")
      ELSE IF upload.kind = "none"
      THEN StudioResult("", "success", s2, fs.files, fs.tempdirs, "skipped", "none")
      ELSE IF ~upload.readable
      THEN StudioResult("BadZipfile", "", s2, fs.files, fs.tempdirs, "skipped", "none")
      ELSE IF old.outcome = "unsupported"
      THEN StudioResult("", "failure: Unsupported storage", s2, old.files, fs.tempdirs,
                        old.outcome, "none")
      ELSE IF ~upload.extractable
      THEN StudioResult("BadZipfile", "", s2, old.files, fs.tempdirs + 1, old.outcome, "left")
      ELSE IF stored.exc # ""
      THEN StudioResult(stored.exc, "", s2, stored.files, fs.tempdirs + 1, old.outcome, "left")
      ELSE StudioResult("", "success", s3, stored.files, fs.tempdirs, old.outcome, "removed")

\* ------------------------------------------------ configuration resolver
\* A settings dict is a function from some of the keys to values.
Keys == {"SCORM_PKG_STORAGE_DIR", "SCORM_FILE_STORAGE_TYPE"}
EmptyDict == [k \in {} |-> ""]
\* dict.update(other), as a value
dict_update(d, other) ==
  [k \in DOMAIN d \cup DOMAIN other |-> IF k \in DOMAIN other THEN other[k] ELSE d[k]]

\* dj_settings as the process holds it: whether it has XBLOCK_SETTINGS,
\* whether that has a "ScormXBlock" entry, and the entry's dict
DjSettings(has_attr, has_entry, entry) ==
  [has_attr |-> has_attr, has_entry |-> has_attr /\ has_entry,
   entry |-> IF has_attr /\ has_entry THEN entry ELSE EmptyDict]

\* what .get("ScormXBlock") finds in a SiteConfiguration's XBLOCK_SETTINGS:
\* a dict, or nothing
Found(d) == [found |-> TRUE, d |-> d]
NotFound == [found |-> FALSE, d |-> EmptyDict]

\* configuration_helpers.get_value("XBLOCK_SETTINGS", {}) of the request's Site
SiteConfigurationOf(domain) ==
  CASE domain = "tenant-a.example" -> Found([k \in {"SCORM_PKG_STORAGE_DIR"} |-> "tenantA"])
    [] domain = "tenant-b.example" ->
         Found([k \in {"SCORM_FILE_STORAGE_TYPE"} |-> "S3BotoStorage"])
    \* a Site without ScormXBlock settings
    [] OTHER -> NotFound

\* configuration_helpers.get_value_for_org(org, "XBLOCK_SETTINGS", {})
SiteConfigurationForOrg(org) ==
  CASE org = "OrgA" ->
         Found([k \in Keys |-> IF k = "SCORM_PKG_STORAGE_DIR" THEN "orgA" ELSE "S3BotoStorage"])
    [] org = "OrgB" -> Found([k \in {"SCORM_PKG_STORAGE_DIR"} |-> "orgB"])
    \* "ScormXBlock": {} in the org's SiteConfiguration
    [] org = "OrgD" -> Found(EmptyDict)
    \* an org without ScormXBlock settings
    [] OTHER -> NotFound

\* the outcome of reading the `settings` property: the dict returned or the
\* exception raised, and dj_settings as the read leaves it
Resolved(exc, value, dj) == [exc |-> exc, value |-> value, dj |-> dj]

settings(dj_settings, siteconfiguration, domain, course_org) ==
  LET in_place == dj_settings.has_attr /\ dj_settings.has_entry
      base_settings == IF in_place THEN dj_settings.entry ELSE EmptyDict
      \* .get("ScormXBlock", {})
      site_settings_by_domain == SiteConfigurationOf(domain).d
      by_domain == dict_update(base_settings, site_settings_by_domain)
      \* .get("ScormXBlock"): None when the org has no entry
      site_settings_by_org == SiteConfigurationForOrg(course_org)
      by_org == dict_update(by_domain, site_settings_by_org.d)
      \* base_settings is the dict dj_settings holds, updated in place
      kept(d) == IF in_place THEN [dj_settings EXCEPT !.entry = d] ELSE dj_settings
  IN  IF ~siteconfiguration THEN Resolved("", base_settings, dj_settings)
      ELSE IF course_org = "" THEN Resolved("", by_domain, kept(by_domain))
      \* base_settings.update(None)
      ELSE IF ~site_settings_by_org.found THEN Resolved("TypeError", EmptyDict, kept(by_domain))
      ELSE Resolved("", by_org, kept(by_org))

\* ================================================================= state
VARIABLES
  \* Scope.user_state fields
  raw_scorm_status, scorm_initialized, lesson_status, lesson_score,
  \* Scope.settings fields
  display_name, description, weight, display_width, display_height,
  display_type, scorm_player, encoding, player_configuration, scorm_file,
  \* the storage back-end, the files stored under path_to_file, and the
  \* number of temporary extraction directories on the disk
  backend, files, tempdirs,
  \* the number of uploads handled so far
  imports,
  \* what the last request was and how it ended
  last,
  \* the `data` of the last set_raw_scorm_status request that was stored
  accepted,
  \* XBLOCK_SETTINGS as the installation's env.json defines it, and as the
  \* running process holds it in django.conf.settings
  installation, XBLOCK_SETTINGS,
  \* whether site_configuration could be imported
  has_siteconfiguration,
  \* the last read of the `settings` property
  resolution

userFields == <<raw_scorm_status, scorm_initialized, lesson_status, lesson_score>>
settingsFields == <<display_name, description, weight, display_width, display_height,
                    display_type, scorm_player, encoding, player_configuration, scorm_file>>
storageVars == <<backend, files, tempdirs, imports>>
configVars == <<installation, XBLOCK_SETTINGS, has_siteconfiguration, resolution>>
vars == <<userFields, settingsFields, storageVars, last, accepted, configVars>>

\* the block instance the runtime builds for a learner's request
Self ==
  [raw_scorm_status |-> raw_scorm_status, scorm_initialized |-> scorm_initialized,
   lesson_status |-> lesson_status, lesson_score |-> lesson_score, weight |-> weight]

\* self.save(): the user-state fields of the instance become the stored ones
Save(self) ==
  /\ raw_scorm_status' = self.raw_scorm_status
  /\ scorm_initialized' = self.scorm_initialized
  /\ lesson_status' = self.lesson_status
  /\ lesson_score' = self.lesson_score

\* ---------------------------------------------------------------- inputs
\* SCO records as a player reports them: a 'data' dict with or without a raw score
Sco(raw) ==
  [has |-> {"data"}, credit |-> "", lesson_status |-> "",
   data |-> [has |-> IF raw = None THEN {} ELSE {"cmi.core.score.raw"}, score_raw |-> raw]]
\* the mappings a package of 0..MaxScos SCOs reports, SCO k being identified by k
ScoMappings(raws) ==
  UNION {[1..k -> {Sco(raw) : raw \in raws}] : k \in 0..MaxScos}

StatusInputs == {"incomplete", "completed"}
ScoreInputs == {Str(""), Str("50"), Str("abc")}
StatusScos == ScoMappings({Str("80")})
Document(has, status, score, scos) ==
  [kind |-> "object", has |-> has,
   status |-> IF "status" \in has THEN status ELSE "",
   score |-> IF "score" \in has THEN score ELSE None,
   scos |-> IF "scos" \in has THEN scos ELSE <<>>]
StatusDocuments ==
  {Document({}, "", None, <<>>)}
    \cup {Document({"status"}, status, None, <<>>) : status \in StatusInputs}
    \cup {Document({"score"}, "", score, <<>>) : score \in ScoreInputs}
    \cup {Document({"scos"}, "", None, scos) : scos \in StatusScos}
    \cup {Document({"status", "score"}, status, score, <<>>) :
            status \in StatusInputs, score \in ScoreInputs}
    \cup {Document({"status", "scos"}, status, None, scos) :
            status \in StatusInputs, scos \in StatusScos}
    \cup {Document({"score", "scos"}, "", score, scos) :
            score \in ScoreInputs, scos \in StatusScos}
    \cup {Document({"status", "score", "scos"}, status, score, scos) :
            status \in StatusInputs, score \in ScoreInputs, scos \in StatusScos}
\* what a player may post as `data`: documents in its own layout, a JSON
\* array, and a text that is not JSON
StatusTexts ==
  {Text(TRUE, "client", doc) : doc \in StatusDocuments}
    \cup {Text(TRUE, "client", JsonArray),
          \* texts cut short: what was meant is in `val`, and does not parse
          Text(FALSE, "client", EmptyObject),
          Text(FALSE, "client", Document({"status", "score"}, "completed", Str("50"), <<>>))}

\* the mappings handed to the rollup: every SCO but the last reports 60, the
\* last reports no score, an empty one, a number, or a word
RollupScos ==
  {m \in ScoMappings({None, Str(""), Str("60"), Str("80"), Str("abc")}) :
     \A i \in DOMAIN m : i < Cardinality(DOMAIN m) => m[i] = Sco(Str("60"))}
ApiRequest(name, has_value, value) == [name |-> name, has_value |-> has_value, value |-> value]
ApiRequests ==
  {ApiRequest("cmi.core.lesson_status", TRUE, Str(v)) : v \in {"completed", "incomplete"}}
    \cup {ApiRequest("cmi.core.score.raw", TRUE, Str("80"))}
    \cup {ApiRequest("cmi.core.score.raw", TRUE, Map(m)) : m \in RollupScos}
    \cup {ApiRequest(name, FALSE, None) :
            name \in {"cmi.core.lesson_status", "cmi.core.score.raw", "cmi.core.exit"}}
    \cup {ApiRequest("cmi.core.exit", TRUE, Str("suspend"))}

Weights == 0..MaxWeight

\* ------------------------------------------------------------------ Init
\* the record of a request: the handler, how it ended (exc, events, body,
\* init_ran), whether the learner was initialised when it began, and what it
\* was sent (data_kind, status and score of a status report; name and arg of
\* an API call)
Request(op, r, was_initialized, data_kind, status, score, name, arg) ==
  [op |-> op, exc |-> r.exc, events |-> r.events, init_ran |-> r.init_ran,
   was_initialized |-> was_initialized, data_kind |-> data_kind,
   status |-> status, score |-> score, name |-> name, arg |-> arg, body |-> r.body]
NoRequest ==
  [op |-> "none", exc |-> "", events |-> <<>>, init_ran |-> FALSE,
   was_initialized |-> FALSE, data_kind |-> "", status |-> "", score |-> None,
   name |-> "", arg |-> None, body |-> ""]

EmptyString == Text(FALSE, "empty", EmptyObject)
SettingsDefaults ==
  /\ display_name = "SCORM"
  /\ description = ""
  /\ display_width = 820
  /\ display_height = 450
  /\ display_type = "iframe"
  /\ scorm_player = ""
  /\ encoding = "cp850"
  /\ player_configuration = EmptyString
  /\ scorm_file = Url("", "")

StorageEmpty ==
  /\ files = {}
  /\ tempdirs = 0
  /\ imports = 0

UserStateDefaults ==
  /\ raw_scorm_status = DefaultRawStatus
  /\ scorm_initialized = FALSE
  /\ lesson_status = "not attempted"
  /\ lesson_score = Rat(0, 1)
  /\ last = NoRequest
  /\ accepted = DefaultRawStatus

\* the installation of the docstring's sample, before any read of `settings`
Resolution(domain, course_org, r) ==
  [op |-> "settings", domain |-> domain, course_org |-> course_org,
   exc |-> r.exc, value |-> r.value]
NoResolution ==
  [op |-> "none", domain |-> "", course_org |-> "", exc |-> "", value |-> EmptyDict]
SampleSettings ==
  [k \in Keys |-> IF k = "SCORM_PKG_STORAGE_DIR" THEN "scorms" ELSE "FileSystemStorage"]
ConfigurationAsInstalled ==
  /\ installation = DjSettings(TRUE, TRUE, SampleSettings)
  /\ XBLOCK_SETTINGS = installation
  /\ has_siteconfiguration = TRUE
  /\ resolution = NoResolution

\* a learner opens a block whose weight an author has set
Init ==
  /\ UserStateDefaults
  /\ SettingsDefaults
  /\ weight \in Weights
  /\ StorageEmpty
  /\ ConfigurationAsInstalled
  /\ backend = "local"

\* --------------------------------------------------------------- actions
\* the runtime saves the instance when the handler returns, and drops it
\* when the handler raises
Finish(r) == IF r.exc = "" THEN Save(r.self) ELSE UNCHANGED userFields

GetRawScormStatus ==
  LET r == get_raw_scorm_status(Self)
  IN  /\ Finish(r)
      /\ last' = Request("get_raw_scorm_status", r, scorm_initialized, "", "", None, "", None)
      /\ UNCHANGED <<settingsFields, storageVars, accepted, configVars>>

SetRawScormStatus ==
  \E data \in StatusTexts :
    LET r == set_raw_scorm_status(Self, data)
        data_kind == IF data.wf THEN data.val.kind ELSE "malformed"
        parsed == data_kind = "object"
    IN  /\ Finish(r)
        /\ accepted' = IF r.exc = "" THEN data ELSE accepted
        /\ last' = Request("set_raw_scorm_status", r, scorm_initialized, data_kind,
                           IF parsed THEN DictGet(data.val, "status", "not attempted") ELSE "",
                           IF parsed THEN DictGet(data.val, "score", None) ELSE None, "", None)
        /\ UNCHANGED <<settingsFields, storageVars, configVars>>

ScormGetValue ==
  \E data \in {d \in ApiRequests : ~d.has_value} :
    LET r == scorm_get_value(Self, data)
    IN  /\ Finish(r)
        /\ last' = Request("scorm_get_value", r, scorm_initialized, "", "", None, data.name, None)
        /\ UNCHANGED <<settingsFields, storageVars, accepted, configVars>>

ScormSetValue ==
  \E data \in ApiRequests :
    LET r == scorm_set_value(Self, data)
    IN  /\ Finish(r)
        /\ last' = Request("scorm_set_value", r, scorm_initialized, "", "", None, data.name,
                           IF data.has_value THEN data.value ELSE None)
        /\ UNCHANGED <<settingsFields, storageVars, accepted, configVars>>

\* ---------------------------------------------------------------- Studio
\* the block instance the runtime builds for an author's request
SettingsSelf ==
  [display_name |-> display_name, description |-> description, weight |-> weight,
   display_width |-> display_width, display_height |-> display_height,
   display_type |-> display_type, scorm_player |-> scorm_player, encoding |-> encoding,
   player_configuration |-> player_configuration, scorm_file |-> scorm_file]

SaveSettings(self) ==
  /\ display_name' = self.display_name
  /\ description' = self.description
  /\ weight' = self.weight
  /\ display_width' = self.display_width
  /\ display_height' = self.display_height
  /\ display_type' = self.display_type
  /\ scorm_player' = self.scorm_player
  /\ encoding' = self.encoding
  /\ player_configuration' = self.player_configuration
  /\ scorm_file' = self.scorm_file

\* archive members: a name, whether the name has bytes outside ASCII, and what
\* storage.save does with the file
Member(name, nonascii, save) == [name |-> name, nonascii |-> nonascii, save |-> save]
Manifest == Member("imsmanifest.xml", FALSE, "ok")
Upload(kind, pkg, readable, extractable, members) ==
  [kind |-> kind, pkg |-> pkg, readable |-> readable, extractable |-> extractable,
   members |-> members]
NoUpload == Upload("none", "", FALSE, FALSE, {})
Uploads ==
  {NoUpload,
   \* not a zip file
   Upload("file", "notzip", FALSE, FALSE, {}),
   \* a zip whose directory reads and whose member data does not extract
   Upload("file", "corrupt", TRUE, FALSE, {Manifest}),
   Upload("file", "course1", TRUE, TRUE, {Manifest, Member("index.html", FALSE, "ok")}),
   Upload("file", "course2", TRUE, TRUE, {Manifest, Member("cafe-acute.html", TRUE, "ok")}),
   \* no imsmanifest.xml at the root
   Upload("file", "nomanifest", TRUE, TRUE, {Member("index.html", FALSE, "ok")}),
   Upload("file", "badname", TRUE, TRUE,
          {Manifest, Member("intro.html", FALSE, "DjangoUnicodeDecodeError")}),
   Upload("file", "ioerror", TRUE, TRUE, {Manifest, Member("video.mp4", FALSE, "IOError")})}

PlayerConfigurations ==
  {EmptyString, Text(TRUE, "client", EmptyObject), Text(FALSE, "client", EmptyObject)}

\* the form an author submits
Params(look, w, enc, config, file) ==
  [display_name |-> IF look = 1 THEN "SCORM" ELSE "Safety course",
   description |-> IF look = 1 THEN "" ELSE "Mandatory",
   weight |-> w,
   display_width |-> IF look = 1 THEN 820 ELSE 1024,
   display_height |-> IF look = 1 THEN 450 ELSE 768,
   display_type |-> IF look = 1 THEN "iframe" ELSE "popup",
   scorm_player |-> IF look = 1 THEN "SCORM_PKG_INTERNAL" ELSE "ssla",
   encoding |-> enc,
   player_configuration |-> config,
   file |-> file]
\* forms that change the settings only, and forms that upload a package
Forms ==
  {Params(look, w, enc, config, NoUpload) :
     look \in {1, 2}, w \in {0, MaxWeight}, enc \in {"cp850", "ascii"},
     config \in PlayerConfigurations}
    \cup {Params(look, 1, enc, EmptyString, file) :
            look \in {1, 2}, enc \in {"cp850", "ascii"}, file \in Uploads \ {NoUpload}}

\* what shutil.rmtree may leave of the stored files: nothing, or, when it
\* raises on a local directory, any part of them
KeptChoices(params, stored, storage) ==
  IF params.file.kind = "file" /\ params.file.readable /\ storage = "local"
       /\ ManifestExists(stored)
  THEN SUBSET stored
  ELSE {{}}

\* the orders in which os.walk may list a set of members
Orders(members) ==
  {order \in [1..Cardinality(members) -> members] :
     \A i, j \in DOMAIN order : i # j => order[i] # order[j]}

\* the record of a submission: how it ended, the archive uploaded and the
\* encoding declared, and whether every upload so far was imported
StudioRequest(r, params, before) ==
  [op |-> "studio_submit", exc |-> r.exc, body |-> r.body,
   upload |-> params.file.kind, deleted |-> r.deleted, tempdir |-> r.tempdir,
   file |-> params.file, encoding |-> params.encoding,
   all_imported |->
     /\ before.op = "studio_submit" => before.all_imported
     /\ params.file.kind = "file" => (r.exc = "" /\ r.body = "success")]

\* an author opens the block as created, on an empty storage
StudioInit ==
  /\ UserStateDefaults
  /\ SettingsDefaults
  /\ weight = 1
  /\ StorageEmpty
  /\ ConfigurationAsInstalled
  /\ backend \in Backends

StudioSubmit ==
  \E params \in Forms :
    \E kept \in KeptChoices(params, files, backend), order \in Orders(params.file.members) :
      LET fs == [files |-> files, tempdirs |-> tempdirs, backend |-> backend]
          r == studio_submit(SettingsSelf, params, fs, [kept |-> kept, order |-> order])
      IN  /\ params.file.kind = "file" => imports < MaxImports
          /\ IF r.exc = "" THEN SaveSettings(r.self) ELSE UNCHANGED settingsFields
          /\ files' = r.files
          /\ tempdirs' = r.tempdirs
          /\ imports' = IF params.file.kind = "file" THEN imports + 1 ELSE imports
          /\ last' = StudioRequest(r, params, last)
          /\ UNCHANGED <<userFields, backend, accepted, configVars>>

StudioNext == StudioSubmit
StudioSpec == StudioInit /\ [][StudioNext]_vars

\* ---------------------------------------------------------- configuration
\* the XBLOCK_SETTINGS an installation may define
Installations ==
  {DjSettings(FALSE, FALSE, EmptyDict),
   DjSettings(TRUE, FALSE, EmptyDict),
   DjSettings(TRUE, TRUE, [k \in {"SCORM_PKG_STORAGE_DIR"} |-> "scorms"]),
   DjSettings(TRUE, TRUE, SampleSettings)}
\* the Sites requests arrive at, and the orgs of the courses holding the block
Domains == {"lms.example", "tenant-a.example", "tenant-b.example"}
Orgs == {"", "OrgA", "OrgB", "OrgC", "OrgD"}

\* a process starts with the installation's settings
SettingsInit ==
  /\ UserStateDefaults
  /\ SettingsDefaults
  /\ weight = 1
  /\ StorageEmpty
  /\ backend = "local"
  /\ installation \in Installations
  /\ XBLOCK_SETTINGS = installation
  /\ has_siteconfiguration \in BOOLEAN
  /\ resolution = NoResolution

\* a request on `domain` for a block of a course of `course_org` reads
\* self.settings
ReadSettings ==
  \E domain \in Domains, course_org \in Orgs :
    LET r == settings(XBLOCK_SETTINGS, has_siteconfiguration, domain, course_org)
    IN  /\ XBLOCK_SETTINGS' = r.dj
        /\ resolution' = Resolution(domain, course_org, r)
        /\ UNCHANGED <<userFields, settingsFields, storageVars, last, accepted,
                       installation, has_siteconfiguration>>

SettingsNext == ReadSettings
SettingsSpec == SettingsInit /\ [][SettingsNext]_vars

Next ==
  \/ GetRawScormStatus
  \/ SetRawScormStatus
  \/ ScormGetValue
  \/ ScormSetValue

Spec == Init /\ [][Next]_vars

\* ================================================================ claims
IsStatusReport == last.op = "set_raw_scorm_status"

\* C1: a get_raw_scorm_status returns, verbatim, the `data` of the last
\* set_raw_scorm_status that was accepted, and '{}' before any was.
C1_RoundTrip ==
  last.op = "get_raw_scorm_status" =>
    /\ last.exc = ""
    /\ last.body = accepted
    /\ (~scorm_initialized => last.body = DefaultRawStatus)
C1_Witness ==
  /\ last.op = "get_raw_scorm_status"
  /\ last.body = accepted
  /\ accepted.fmt = "client"
  /\ accepted.val.has = {"status", "score", "scos"}

\* C2: a status report emits no grade event when its score is the empty
\* string and exactly one grade event for every other score input.
C2_OneEventPerScore ==
  (IsStatusReport /\ last.data_kind = "object") =>
    Len(last.events) = IF last.score = Str("") THEN 0 ELSE 1

\* C3: every grade event of a status report with score s has
\* value = (s / 100) * weight and max_value = weight; weight 2 and score
\* "50" give value 1.0 and max_value 2.
C3_GradeValue ==
  IsStatusReport =>
    \A i \in DOMAIN last.events :
      LET e == last.events[i]
          s == NumericLiteral[last.score.s]
      IN  /\ e.value[1] * 100 = s * weight * e.value[2]
          /\ e.value[2] > 0
          /\ e.max_value = weight
          /\ (weight = 2 /\ last.score = Str("50")) => e = GradeEvent(<<1, 1>>, 2)
C3_Witness ==
  /\ IsStatusReport
  /\ last.score = Str("50")
  /\ last.status = "completed"
  /\ last.events = <<GradeEvent(<<1, 1>>, 2)>>

\* the mean of the raw scores of the SCOs of a status document, 0 if none
\* reports a score
RECURSIVE SumReported(_, _)
SumReported(scos, ids) ==
  IF ids = {} THEN 0
  ELSE LET id == CHOOSE i \in ids : TRUE
           raw == scos[id].data.score_raw
       IN  (IF "cmi.core.score.raw" \in scos[id].data.has /\ PyNumberExc(raw) = ""
            THEN PyNumber(raw) ELSE 0)
           + SumReported(scos, ids \ {id})
MeanOfScos(scos) ==
  IF DOMAIN scos = {} THEN <<0, 1>>
  ELSE Rat(SumReported(scos, DOMAIN scos), Cardinality(DOMAIN scos))

\* C4: after every status report the stored lesson_score is the mean of the
\* raw scores of the SCOs of the stored status document (0 if there is none).
C4_LessonScoreIsMean ==
  (IsStatusReport /\ last.exc = "") =>
    lesson_score = MeanOfScos(json_loads(raw_scorm_status).val.scos)

\* C5: set_raw_scorm_status runs _init_scos only when the learner is not yet
\* initialised, every accepted report leaves the flag set, the flag never
\* returns to false, and a report made with the flag set stores the SCOs
\* exactly as they were sent.
C5_Guard ==
  IsStatusReport =>
    /\ last.init_ran => ~last.was_initialized
    /\ last.exc = "" =>
         /\ scorm_initialized
         /\ last.init_ran <=> ~last.was_initialized
         /\ last.was_initialized => raw_scorm_status.val.scos = accepted.val.scos
C6_RollupTotal ==
  (last.op = "scorm_set_value" /\ last.arg.t = "map" /\ DOMAIN last.arg.m # {}) =>
    /\ last.exc = ""
    /\ lesson_score = MeanOfScos(last.arg.m)
    /\ lesson_score[1] <= 100 * lesson_score[2]

\* C7: a status report whose data is not well-formed JSON is rejected with
\* an error, changes no user-state field and emits no grade event.
C7_MalformedRejected ==
  [][(last'.op = "set_raw_scorm_status" /\ last'.data_kind = "malformed") =>
       /\ last'.exc = "ValueError"
       /\ last'.events = <<>>
       /\ UNCHANGED userFields]_vars
C7_Witness ==
  /\ IsStatusReport
  /\ last.data_kind = "malformed"
  /\ last.exc = "ValueError"
  /\ scorm_initialized
  /\ raw_scorm_status = accepted
  /\ accepted.val.has # {}

IsStudioSubmit == last.op = "studio_submit"

\* C8: a settings submission whose player configuration is not valid JSON
\* returns a failure payload and leaves every settings field as it was.
C8_InvalidConfigNoMutation ==
  [][(last'.op = "studio_submit"
        /\ last'.body = "failure: Invalid JSON in Player Configuration") =>
       UNCHANGED settingsFields]_vars

\* C9: a submission rejected because the upload is not a zip file, or because
\* the old content cannot be deleted on the storage back-end, has deleted and
\* written no stored file and leaves scorm_file as it was.
C9_RejectedImportUntouched ==
  [][(last'.op = "studio_submit"
        /\ \/ (last'.exc = "BadZipfile" /\ last'.tempdir = "none")
           \/ last'.body = "failure: Unsupported storage") =>
       (files' = files /\ scorm_file' = scorm_file)]_vars

\* C10: an import that created a temporary extraction directory has removed
\* it when the request ends, however the request ends.
C10_TempdirRemoved ==
  (IsStudioSubmit /\ last.tempdir # "none") => last.tempdir = "removed"

\* the resolution the documented order gives: the installation's entry,
\* updated by the Site's settings, updated by the org's; an overlay without
\* ScormXBlock settings updates nothing
Overlay(domain, course_org) ==
  dict_update(dict_update(installation.entry, SiteConfigurationOf(domain).d),
              SiteConfigurationForOrg(course_org).d)
IsResolution == resolution.op = "settings" /\ has_siteconfiguration

\* C11: every read of `settings` succeeds and returns, key by key, the org's
\* value if the org defines the key, else the Site's, else the
\* installation's; an overlay that defines no ScormXBlock settings changes
\* nothing.
C11_ThreeLevelOverlay ==
  IsResolution =>
    /\ resolution.exc = ""
    /\ resolution.value = Overlay(resolution.domain, resolution.course_org)

\* C12: reading `settings` never changes the installation's XBLOCK_SETTINGS,
\* and a read for a Site and org that do not override a key returns the
\* installation's value for it, whatever was read before.
C12_ReadOnly ==
  /\ XBLOCK_SETTINGS = installation
  /\ (IsResolution /\ resolution.exc = "") =>
       \A k \in Keys \ (DOMAIN SiteConfigurationOf(resolution.domain).d
                          \cup DOMAIN SiteConfigurationForOrg(resolution.course_org).d) :
         /\ k \in DOMAIN resolution.value <=> k \in DOMAIN installation.entry
         /\ k \in DOMAIN resolution.value => resolution.value[k] = installation.entry[k]

\* C13: when every upload so far was imported, the files stored under the
\* block's path after an import are files of the archive just imported.
C13_ReplacedWholesale ==
  (IsStudioSubmit /\ last.upload = "file" /\ last.all_imported) =>
    \A f \in files : f.pkg = last.file.pkg

\* members of the uploaded archive whose name does not decode from the
\* declared encoding, or whose save fails with an encoding error
Mismatched(m) == ~Decodable(m, last.encoding) \/ m.save = "DjangoUnicodeDecodeError"

\* C14: an import that reached the upload loop with a file whose name does
\* not fit the declared encoding, and no other failure, returns success,
\* sets scorm_file to the storage URL and has stored every other file.
C14_MismatchSkipped ==
  (/\ IsStudioSubmit
   /\ last.tempdir # "none"
   /\ last.file.extractable
   /\ \E m \in last.file.members : Mismatched(m)
   /\ \A m \in last.file.members : Mismatched(m) \/ m.save = "ok") =>
    /\ last.exc = ""
    /\ last.body = "success"
    /\ scorm_file = StripQuery(StorageUrl(backend))
    /\ \A m \in last.file.members :
         ~Mismatched(m) => \E f \in files : f.name = m.name /\ f.pkg = last.file.pkg

IsSetValue == last.op = "scorm_set_value" /\ last.arg # None
\* a scorm_set_value call with a lesson status other than 'completed', or
\* with a raw score, returns 'success', and the status is stored
C15_SetSucceeds ==
  /\ (IsSetValue /\ last.name = "cmi.core.lesson_status" /\ last.arg # Str("completed")) =>
       /\ last.exc = ""
       /\ last.body = "success"
       /\ lesson_status = PlainOf(last.arg)
  \* (the rollup of no SCOs at all is left open by the specification)
  /\ (IsSetValue /\ last.name = "cmi.core.score.raw" /\ last.arg # Map(<<>>)) =>
       /\ last.exc = ""
       /\ last.body = "success"
\* a scorm_get_value for the lesson status that follows such a set returns
\* the value set
C15_GetAfterSet ==
  (/\ IsSetValue
   /\ last.name = "cmi.core.lesson_status"
   /\ last.arg # Str("completed")
   /\ last'.op = "scorm_get_value"
   /\ last'.name = "cmi.core.lesson_status") =>
    last'.body = PlainOf(last.arg)

\* C15: scorm_set_value with name 'cmi.core.lesson_status' and a value v
\* other than 'completed' returns success and stores v, so that the next
\* scorm_get_value for 'cmi.core.lesson_status' returns v; scorm_set_value
\* with name 'cmi.core.score.raw' and a value returns success.
C15_GetSetPair == [](C15_SetSucceeds) /\ [][C15_GetAfterSet]_vars

====
